---- MODULE Spec2Model ----
(***************************************************************************)
(* duro-operator: the DashboardApp reconciler.                             *)
(*                                                                         *)
(* The store holds the DashboardApp resources (spec + status, each with    *)
(* its resourceVersion) and the single duro apps ConfigMap.  A pass is one *)
(* call of Reconcile: List, Assemble, updateAppsConfig (Get, then Create   *)
(* or Update, or nothing on a hash match), then one Status().Update per    *)
(* listed resource.  Up to MaxConcurrentReconciles passes run at once and  *)
(* interleave at their store calls.                                        *)
(***************************************************************************)
EXTENDS Integers, Sequences, FiniteSets, TLC

(***************************************************************************)
(* Bounds of the model.                                                    *)
(***************************************************************************)
\* Events from outside the engine in one behaviour: triggers of a Reconcile
\* call, changes of the resources by their owner, store calls or assemblies
\* that fail for an outside reason, and ticks of the wall clock.
MaxEvents == 3

\* The most resources handed to Assemble when it is checked on its own.
MaxApps == 2

(***************************************************************************)
(* Program constants.                                                      *)
(***************************************************************************)
DefaultPriority == 100
RequeueLong == 30
RequeueShort == 10
ErrorTypeTransient == 0
ErrorTypePermanent == 1
ErrorTypeConfig == 2

\* Workers of the controller that may be inside Reconcile at once (a subset
\* of the MaxConcurrentReconciles workers, which is 3 by default).
Procs == {1, 2}

\* metadata.name of the resources, in the order List returns them.
AppNames == <<"gitea", "plex">>

Range(s) == {s[i] : i \in 1..Len(s)}

(***************************************************************************)
(* Strings that the code orders (Spec.Name) are sequences of bytes.        *)
(***************************************************************************)
Min2(x, y) == IF x < y THEN x ELSE y

\* cmp.Compare on integers
CompareInt(x, y) == IF x < y THEN -1 ELSE IF x > y THEN 1 ELSE 0

\* cmp.Compare on strings: bytewise lexicographic
CompareString(s, t) ==
    LET n == Min2(Len(s), Len(t))
        diff == {i \in 1..n : s[i] # t[i]}
    IN IF diff = {}
         THEN CompareInt(Len(s), Len(t))
         ELSE LET k == CHOOSE i \in diff : \A j \in diff : i <= j
              IN CompareInt(s[k], t[k])

(***************************************************************************)
(* pkg/assembler                                                           *)
(***************************************************************************)
\* categoryOrder[c]: a Go map lookup, which yields 0 for a missing key.
categoryOrder(c) ==
    CASE c = "media" -> 0
      [] c = "ai" -> 1
      [] c = "productivity" -> 2
      [] c = "development" -> 3
      [] c = "admin" -> 4
      [] OTHER -> 0

\* (mutant) the priorities are compared the wrong way round.
entryCmpPriorityDescending(a, b) ==
    LET c1 == CompareInt(categoryOrder(a.Category), categoryOrder(b.Category))
        c2 == CompareInt(b.Priority, a.Priority)
    IN IF c1 # 0 THEN c1
       ELSE IF c2 # 0 THEN c2
       ELSE CompareString(a.Name, b.Name)

\* The comparison function handed to slices.SortFunc.
entryCmp(a, b) ==
    LET c1 == CompareInt(categoryOrder(a.Category), categoryOrder(b.Category))
        c2 == CompareInt(a.Priority, b.Priority)
    IN IF c1 # 0 THEN c1
       ELSE IF c2 # 0 THEN c2
       ELSE CompareString(a.Name, b.Name)

\* (mutant) the declared priority is copied as it is.
toEntryNoDefault(app) ==
    [ID       |-> app.Name,
     Name     |-> app.Spec.Name,
     URL      |-> app.Spec.URL,
     Category |-> app.Spec.Category,
     Icon     |-> app.Spec.Icon,
     Groups   |-> app.Spec.Groups,
     Priority |-> app.Spec.Priority]

\* The derivation of one AppEntry from one DashboardApp.
toEntry(app) ==
    [ID       |-> app.Name,
     Name     |-> app.Spec.Name,
     URL      |-> app.Spec.URL,
     Category |-> app.Spec.Category,
     Icon     |-> app.Spec.Icon,
     Groups   |-> app.Spec.Groups,
     Priority |-> IF app.Spec.Priority = 0 THEN DefaultPriority
                  ELSE app.Spec.Priority]

\* slices.SortFunc on fewer than 12 elements is an insertion sort:
\*   for i := 1; i < n; i++ { for j := i; j > 0 && cmp(d[j], d[j-1]) < 0; j-- { swap } }
RECURSIVE sinkLeft(_, _)
sinkLeft(d, j) ==
    IF j > 1 /\ entryCmp(d[j], d[j-1]) < 0
      THEN sinkLeft([d EXCEPT ![j] = d[j-1], ![j-1] = d[j]], j - 1)
      ELSE d

RECURSIVE insertionSort(_, _)
insertionSort(d, i) ==
    IF i > Len(d) THEN d ELSE insertionSort(sinkLeft(d, i), i + 1)

SortFunc(d) == insertionSort(d, 2)

\* json.MarshalIndent(entries, "", "  "): a JSON array with one object per
\* entry, keys in struct order; a nil Groups slice is written as null.
MarshalEntry(e) ==
    <<"{", <<"id", e.ID>>, <<"name", e.Name>>, <<"url", e.URL>>,
      <<"category", e.Category>>, <<"icon", e.Icon>>,
      <<"groups", IF e.Groups = <<>> THEN <<"null">> ELSE <<"[">> \o e.Groups \o <<"]">> >>,
      <<"priority", e.Priority>>, "}">>

MarshalIndent(entries) ==
    <<"[">> \o [i \in 1..Len(entries) |-> MarshalEntry(entries[i])] \o <<"]">>

\* Assemble without its error return: the AssemblyResult for a list of apps.
\* The entries are built and sorted once; the same sorted slice is returned
\* and marshalled.
Assemble(apps) ==
    CHOOSE result \in {[Entries |-> entries, AppsJSON |-> MarshalIndent(entries)] :
                         entries \in {SortFunc([i \in 1..Len(apps) |-> toEntry(apps[i])])}} : TRUE

(***************************************************************************)
(* pkg/errors                                                              *)
(***************************************************************************)
\* An error value: op says whether it is an *OperatorError, Type is its
\* ErrorType, why is its text.  Errors of the API client are not
\* OperatorErrors.
NoError == [op |-> FALSE, Type |-> ErrorTypeTransient, why |-> "nil"]
ApiError(why) == [op |-> FALSE, Type |-> ErrorTypeTransient, why |-> why]
OperatorError(type, why) == [op |-> TRUE, Type |-> type, why |-> why]

NewTransientError(message) == OperatorError(ErrorTypeTransient, message)
NewPermanentError(message) == OperatorError(ErrorTypePermanent, message)
NewConfigError(message) == OperatorError(ErrorTypeConfig, message)

\* (mutant) only Permanent errors are kept from the retry.
ShouldRetryUnlessPermanent(err) ==
    IF err.op THEN err.Type # ErrorTypePermanent ELSE TRUE

\* ShouldRetry: a type assertion on the error itself (no unwrapping), then
\* the comparison of its Type.
ShouldRetry(err) == IF err.op THEN err.Type = ErrorTypeTransient ELSE TRUE

\* The errors a failing call hands to Reconcile, as far as Reconcile can
\* tell them apart: one that ShouldRetry retries (an error of another
\* package) and one that it does not (a Permanent OperatorError).
FailureErrors ==
    {ApiError("Unavailable"), NewPermanentError("permanent")}

(***************************************************************************)
(* api/v1alpha1: the declared fields the external actor may give a         *)
(* resource.  Spec.Name is a byte string: Gitea = 71 105 ..., Plex = 80 .. *)
(***************************************************************************)
AppSpecs(n) ==
    IF n = "gitea"
      THEN {[Name |-> <<71, 105>>, URL |-> "https://gitea.example.com",
             Category |-> "development", Icon |-> "<svg>gitea</svg>",
             Groups |-> <<"lldap_admin">>, Priority |-> 20],
            [Name |-> <<71, 105>>, URL |-> "https://git.example.com",
             Category |-> "media", Icon |-> "<svg>gitea</svg>",
             Groups |-> <<"lldap_admin">>, Priority |-> 0]}
      ELSE {[Name |-> <<80, 108>>, URL |-> "https://plex.example.com",
             Category |-> "media", Icon |-> "<svg>plex</svg>",
             Groups |-> <<"friends", "family">>, Priority |-> 10],
            [Name |-> <<80, 108>>, URL |-> "https://plex.example.com",
             Category |-> "media", Icon |-> "<svg>plex</svg>",
             Groups |-> <<"friends">>, Priority |-> 0]}

\* DashboardAppStatus of a resource no pass has written yet.
NoStatus == [Ready |-> FALSE, LastSyncedAt |-> 0]

(***************************************************************************)
(* OperatorConfig: the fields Validate and the controller read.  A         *)
(* time.Duration is a number of milliseconds.                              *)
(***************************************************************************)
Second == 1000
Minute == 60 * Second

NewDefaultConfig ==
    [MaxConcurrentReconciles |-> 3, ReconcileTimeout |-> 5 * Minute,
     DuroNamespace |-> "duro", DuroConfigMapName |-> "duro-apps"]

\* func (c *OperatorConfig) Validate() error
Validate(c) ==
    IF c.MaxConcurrentReconciles < 1
      THEN ApiError("maxConcurrentReconciles must be at least 1")
    ELSE IF c.ReconcileTimeout < Second
      THEN ApiError("reconcileTimeout must be at least 1 second")
    ELSE IF c.DuroNamespace = ""
      THEN ApiError("duroNamespace is required")
    ELSE NoError

\* The process with configuration c, before main has validated it.
ParsedOperator(c) ==
    [Config |-> c, pc |-> "validate", queue |-> {},
     processing |-> [q \in Procs |-> ""]]

\* The process after mgr.Start, with the default configuration.
StartedOperator == [ParsedOperator(NewDefaultConfig) EXCEPT !.pc = "running"]

(***************************************************************************)
(* State.                                                                  *)
(*                                                                         *)
(* The store rejects an Update whose object does not carry the stored      *)
(* resourceVersion.  The model keeps no version numbers: each call keeps   *)
(* the set of objects it has read that were written since (stale), which   *)
(* is exactly when the versions differ.                                    *)
(***************************************************************************)
VARIABLES
    apps,      \* the DashboardApps in the store: name -> [Spec, Status]
    cm,        \* the duro apps ConfigMap: <<>> or <<[Data, Hash, ManagedBy]>>
    clock,     \* the wall clock, in ticks since the start
    pass,      \* per worker: the position and locals of its Reconcile call
    outside,   \* the outside events so far
    operator   \* the process: its OperatorConfig, how far main has come, and
               \* the controller's work queue

vars == <<apps, cm, clock, pass, outside, operator>>

NoResult == [Entries |-> <<>>, AppsJSON |-> <<>>]
NoOutcome == [RequeueAfter |-> 0, err |-> NoError]
NoPrev == [undisturbed |-> FALSE, synced |-> FALSE, lost |-> FALSE,
           failedStatus |-> FALSE, found |-> "unread"]

\* A worker that is not inside Reconcile and has no outcome to act on.
IdlePass ==
    [pc |-> "idle", appList |-> <<>>, result |-> NoResult, existing |-> <<>>,
     now |-> 0, i |-> 1, statusUpdateErrors |-> <<>>, out |-> NoOutcome,
     events |-> <<>>, stale |-> {},
     \* what the call did so far (observation only, read by no action)
     listed |-> 0, found |-> "unread", cmOk |-> FALSE, cmCalls |-> <<>>,
     statusCalls |-> 0, fail |-> NoError, undisturbed |-> TRUE, prev |-> NoPrev]

\* sha256 + hex of the document: a digest, equal exactly for equal documents.
computeHash(s) == <<"sha256", s>>

\* The DashboardAppList of the resources in `stored`, in name order.
ListOf(stored) ==
    LET present == SelectSeq(AppNames, LAMBDA n : n \in DOMAIN stored)
    IN [k \in 1..Len(present) |->
          [Name |-> present[k], Spec |-> stored[present[k]].Spec,
           Status |-> stored[present[k]].Status]]

\* r.List: every resource of the store.
ListItems == ListOf(apps)

\* The store wrote object obj ("configmap" or the name of a resource) for
\* `actor`: every other call that holds a copy of it now holds a stale one,
\* and every other call has seen the store change under it.
Written(ps, actor, obj) ==
    [q \in Procs |->
       IF q = actor \/ ps[q].pc = "idle" THEN ps[q]
       ELSE [ps[q] EXCEPT
               !.undisturbed = FALSE,
               !.stale = IF \/ obj = "configmap" /\ ps[q].pc = "update"
                            \/ /\ ps[q].pc \in {"get", "create", "update", "status"}
                               /\ \E k \in ps[q].i..Len(ps[q].appList) :
                                    ps[q].appList[k].Name = obj
                           THEN @ \cup {obj} ELSE @]]

\* The call lost an optimistic-concurrency race on one of its writes.
LostRace(s) ==
    \/ s.fail.why \in {"Conflict", "AlreadyExists"}
    \/ \E k \in 1..Len(s.statusUpdateErrors) : s.statusUpdateErrors[k][2] = "Conflict"

\* Whether the runtime owes the worker another call: a RequeueAfter, or a
\* returned error (which the runtime requeues with its own backoff).
RetryOwed(s) == s.pc = "done" /\ (s.out.RequeueAfter > 0 \/ s.out.err # NoError)

\* What the next call on the worker remembers of this one.
Summary(s) ==
    IF s.pc # "done" THEN NoPrev
    ELSE [undisturbed |-> s.undisturbed,
          synced |-> s.cmOk /\ s.statusUpdateErrors = <<>>,
          lost |-> LostRace(s),
          failedStatus |-> s.cmOk /\ s.statusUpdateErrors # <<>>,
          found |-> s.found]

TypeOK ==
    /\ DOMAIN apps \subseteq Range(AppNames)
    /\ Len(cm) \in {0, 1}
    /\ clock \in Nat
    /\ DOMAIN pass = Procs
    /\ \A p \in Procs :
         pass[p].pc \in {"idle", "get", "create", "update", "status", "done"}
    /\ operator.pc \in {"validate", "exited", "running"}
    /\ operator.queue \subseteq Range(AppNames)

Init ==
    /\ \E present \in SUBSET Range(AppNames) :
         apps = [n \in present |->
                   [Spec |-> CHOOSE s \in AppSpecs(n) : s.Priority # 0,
                    Status |-> NoStatus]]
    /\ cm = <<>>
    /\ clock = 1
    /\ pass = [p \in Procs |-> IdlePass]
    /\ outside = 0
    /\ operator = StartedOperator

(***************************************************************************)
(* Reconcile, one action per store call: the code between two store calls  *)
(* touches only the call's own locals and runs with the call before it.    *)
(***************************************************************************)
\* Recorder.Event on the first listed resource.
Event(s, type, reason) ==
    Append(s.events, [Type |-> type, Reason |-> reason,
                      Object |-> s.appList[1].Name, Count |-> Len(s.appList)])

\* Reconcile returns: its locals are gone, its outcome is the runtime's.
Return(s, requeueAfter, err) ==
    [s EXCEPT !.pc = "done", !.out = [RequeueAfter |-> requeueAfter, err |-> err],
              !.appList = <<>>, !.existing = <<>>, !.now = 0, !.i = 1,
              !.stale = {}]

\* (mutant) the early return is missing: an empty list is assembled and
\* published like any other.
skipReconciliationMissing(s) ==
    [s EXCEPT !.pc = "get", !.result = Assemble(s.appList)]

\* Lines 78-81: nothing is listed.
skipReconciliation(s) == Return(s, 0, NoError)

\* Lines 85-91: Assemble returned err.
assemblyFailed(s, err) ==
    LET t == [s EXCEPT !.fail = err, !.events = Event(s, "Warning", "AssemblyFailed")]
    IN IF ShouldRetry(err) THEN Return(t, RequeueLong, NoError) ELSE Return(t, 0, err)

\* (mutant) the failure of updateAppsConfig is recorded and nothing is
\* requeued.
configUpdateFailedNoRequeue(s, err) ==
    Return([s EXCEPT !.fail = err,
                     !.events = Event(s, "Warning", "ConfigUpdateFailed")],
           0, NoError)

\* (mutant) the failure of updateAppsConfig is recorded and the pass goes on
\* to the status loop.
configUpdateFailedContinue(s, err) ==
    [s EXCEPT !.fail = err, !.events = Event(s, "Warning", "ConfigUpdateFailed"),
              !.pc = "status", !.now = clock]

\* Lines 94-97: updateAppsConfig returned err.
configUpdateFailed(s, err) ==
    Return([s EXCEPT !.fail = err,
                     !.events = Event(s, "Warning", "ConfigUpdateFailed")],
           RequeueLong, NoError)

\* Lines 94, 100: updateAppsConfig returned nil; now := metav1.Now().
configUpdated(s) == [s EXCEPT !.pc = "status", !.cmOk = TRUE, !.now = clock]

\* (mutant) a ConfigMap without the annotation is taken as up to date.
hashMatchOrMissing(existingHash, configHash) ==
    existingHash = <<>> \/ existingHash = configHash

\* (mutant) the hash is not consulted: every pass writes.
hashMatchNever(existingHash, configHash) == FALSE

\* Line 161: the stored hash against the fresh one.
hashMatch(existingHash, configHash) == existingHash = configHash

\* (mutant) the body is replaced and the annotation is left as it was.
updatedConfigMapStaleHash(existing, result) ==
    [existing EXCEPT !.Data = result.AppsJSON, !.ManagedBy = "duro-operator"]

\* (mutant) the new entries are merged into the stored document: entries of
\* the stored one whose id is not listed any more are kept.
updatedConfigMapMerged(existing, result) ==
    LET old == SubSeq(existing.Data, 2, Len(existing.Data) - 1)
        new == SubSeq(result.AppsJSON, 2, Len(result.AppsJSON) - 1)
        kept == SelectSeq(old, LAMBDA e : \A k \in 1..Len(new) : new[k][2] # e[2])
        merged == <<"[">> \o kept \o new \o <<"]">>
    IN [existing EXCEPT !.Data = merged, !.ManagedBy = "duro-operator",
                        !.Hash = computeHash(merged)]

\* Lines 166-176: the object handed to r.Update.
updatedConfigMap(existing, result) ==
    [existing EXCEPT !.Data = result.AppsJSON,
                     !.ManagedBy = "duro-operator",
                     !.Hash = computeHash(result.AppsJSON)]

\* Lines 135-149: the object handed to r.Create.
newConfigMap(result) ==
    [Data |-> result.AppsJSON, Hash |-> computeHash(result.AppsJSON),
     ManagedBy |-> "duro-operator"]

\* One more outside event is within the bound of the model.
MayHappen == outside < MaxEvents

\* The names on the work queue that worker p may take: the runtime hands a
\* name to one worker at a time.
Takeable(p) ==
    {key \in operator.queue :
       \A q \in Procs \ {p} :
         pass[q].pc \in {"idle", "done"} \/ operator.processing[q] # key}

\* Lines 62-91: the runtime calls Reconcile on worker p, which lists the
\* resources and assembles them.  The runtime runs the workers of the
\* configuration, once the process is started.  A worker whose last call
\* asked for a requeue is called again by the runtime, and so is a worker
\* for which the work queue has a name, which the call takes off the queue;
\* otherwise the call answers a trigger from outside.
Reconcile(p) ==
    LET s == pass[p]
        retry == RetryOwed(s) \/ Takeable(p) # {}
        trigger == IF retry THEN 0 ELSE 1
        fresh == [IdlePass EXCEPT !.prev = Summary(s)]
        items == [fresh EXCEPT !.listed = 1 + Len(ListItems), !.appList = ListItems]
    IN /\ operator.pc = "running"
       /\ p <= operator.Config.MaxConcurrentReconciles
       /\ s.pc \in {"idle", "done"}
       /\ retry \/ MayHappen
       /\ \E key \in (IF Takeable(p) # {} THEN Takeable(p) ELSE {""}) :
            operator' = [operator EXCEPT !.queue = @ \ {key}, !.processing[p] = key]
       /\ \/ /\ outside + trigger < MaxEvents
             /\ outside' = outside + trigger + 1
             /\ pass' = [pass EXCEPT ![p] =
                           Return([fresh EXCEPT !.fail = ApiError("Unavailable")],
                                  0, NewTransientError("failed to list DashboardApps"))]
          \/ /\ Len(ListItems) = 0
             /\ outside' = outside + trigger
             /\ pass' = [pass EXCEPT ![p] = skipReconciliation(items)]
          \/ /\ Len(ListItems) > 0
             /\ outside' = outside + trigger
             /\ pass' = [pass EXCEPT ![p] =
                           [items EXCEPT !.pc = "get", !.result = Assemble(ListItems)]]
          \/ /\ Len(ListItems) > 0
             /\ outside + trigger < MaxEvents
             /\ outside' = outside + trigger + 1
             /\ \E err \in FailureErrors :
                  pass' = [pass EXCEPT ![p] = assemblyFailed(items, err)]
       /\ UNCHANGED <<apps, cm, clock>>

\* Lines 129-133, 153-164: r.Get of the ConfigMap and the hash comparison.
GetConfigMap(p) ==
    LET s == pass[p]
        configHash == computeHash(s.result.AppsJSON)
    IN /\ s.pc = "get"
       /\ \/ /\ MayHappen
             /\ outside' = outside + 1
             /\ \E err \in FailureErrors :
                  pass' = [pass EXCEPT ![p] = configUpdateFailed(s, err)]
             /\ UNCHANGED clock
          \/ /\ cm = <<>>
             /\ pass' = [pass EXCEPT ![p] = [s EXCEPT !.pc = "create", !.found = "absent"]]
             /\ UNCHANGED <<clock, outside>>
          \/ /\ cm # <<>>
             /\ hashMatch(cm[1].Hash, configHash)
             /\ pass' = [pass EXCEPT ![p] =
                           configUpdated([s EXCEPT !.existing = cm, !.found = "same"])]
             /\ UNCHANGED <<clock, outside>>
          \/ /\ cm # <<>>
             /\ ~hashMatch(cm[1].Hash, configHash)
             /\ pass' = [pass EXCEPT ![p] =
                           [s EXCEPT !.pc = "update", !.existing = cm,
                                     !.found = "different"]]
             /\ UNCHANGED <<clock, outside>>
       /\ UNCHANGED <<apps, cm>>

\* Lines 134-152: r.Create of the ConfigMap, after a NotFound.
CreateConfigMap(p) ==
    LET s == pass[p]
        called(ok) == [s EXCEPT !.cmCalls = Append(@, <<"Create", ok>>)]
    IN /\ s.pc = "create"
       /\ \/ /\ cm # <<>>
             /\ pass' = [pass EXCEPT ![p] =
                           configUpdateFailed(called(FALSE), ApiError("AlreadyExists"))]
             /\ UNCHANGED <<cm, clock, outside>>
          \/ /\ cm = <<>>
             /\ MayHappen
             /\ outside' = outside + 1
             /\ \E err \in FailureErrors :
                  pass' = [pass EXCEPT ![p] = configUpdateFailed(called(FALSE), err)]
             /\ UNCHANGED <<cm, clock>>
          \/ /\ cm = <<>>
             /\ cm' = <<newConfigMap(s.result)>>
             /\ UNCHANGED clock
             /\ pass' = Written([pass EXCEPT ![p] = configUpdated(called(TRUE))],
                                p, "configmap")
             /\ UNCHANGED outside
       /\ UNCHANGED apps

\* Lines 166-179: r.Update of the ConfigMap read by Get.
UpdateConfigMap(p) ==
    LET s == pass[p]
        called(ok) == [s EXCEPT !.cmCalls = Append(@, <<"Update", ok>>)]
        current == "configmap" \notin s.stale
    IN /\ s.pc = "update"
       /\ \/ /\ ~current
             /\ pass' = [pass EXCEPT ![p] =
                           configUpdateFailed(called(FALSE), ApiError("Conflict"))]
             /\ UNCHANGED <<cm, clock, outside>>
          \/ /\ current
             /\ MayHappen
             /\ outside' = outside + 1
             /\ \E err \in FailureErrors :
                  pass' = [pass EXCEPT ![p] = configUpdateFailed(called(FALSE), err)]
             /\ UNCHANGED <<cm, clock>>
          \/ /\ current
             /\ cm' = <<updatedConfigMap(s.existing[1], s.result)>>
             /\ UNCHANGED clock
             /\ pass' = Written([pass EXCEPT ![p] = configUpdated(called(TRUE))],
                                p, "configmap")
             /\ UNCHANGED outside
       /\ UNCHANGED apps

\* (mutant) the status write flips the ready flag it read.
syncedStatusFlipped(status, now) ==
    [status EXCEPT !.Ready = ~status.Ready, !.LastSyncedAt = now]

\* Lines 104-105: the status the loop writes.
syncedStatus(status, now) == [status EXCEPT !.Ready = TRUE, !.LastSyncedAt = now]

\* (mutant) failed status updates are logged and the pass ends as a success.
finishNoRequeue(s) ==
    Return([s EXCEPT !.events = Event(s, "Normal", "Synced")], 0, NoError)

\* (mutant) a failed status update is requeued with the delay of the
\* assembly and artifact failures.
finishLongRequeue(s) ==
    IF Len(s.statusUpdateErrors) > 0
      THEN Return(s, RequeueLong, NoError)
      ELSE Return([s EXCEPT !.events = Event(s, "Normal", "Synced")], 0, NoError)

\* (mutant) the Synced event is emitted before the errors are looked at.
finishAlwaysSynced(s) ==
    LET t == [s EXCEPT !.events = Event(s, "Normal", "Synced")]
    IN IF Len(s.statusUpdateErrors) > 0
         THEN Return(t, RequeueShort, NoError)
         ELSE Return(t, 0, NoError)

\* Lines 112-122: after the loop.
finish(s) ==
    IF Len(s.statusUpdateErrors) > 0
      THEN Return(s, RequeueShort, NoError)
      ELSE Return([s EXCEPT !.events = Event(s, "Normal", "Synced")], 0, NoError)

\* Lines 102-110: the loop goes on to the next resource, or ends.
nextApp(s) ==
    IF s.i < Len(s.appList) THEN [s EXCEPT !.i = s.i + 1] ELSE finish(s)

\* (mutant) a failed Status().Update is tried again at once.
statusFailedRetryInline(s, err) ==
    [s EXCEPT !.statusUpdateErrors = Append(@, <<s.appList[s.i].Name, err.why>>)]

\* (mutant) the loop stops at the first failed Status().Update.
statusFailedBreak(s, err) ==
    finish([s EXCEPT !.statusUpdateErrors =
                       Append(@, <<s.appList[s.i].Name, err.why>>)])

\* Lines 106-109: what the loop does with a failed Status().Update.
statusFailed(s, err) ==
    nextApp([s EXCEPT !.statusUpdateErrors =
                        Append(@, <<s.appList[s.i].Name, err.why>>)])

\* Lines 102-122: one round of the loop, the Status().Update of appList[i],
\* and after the last round the end of Reconcile.
UpdateStatus(p) ==
    LET c == pass[p]
        s == [c EXCEPT !.statusCalls = @ + 1]
        app == s.appList[s.i]
        current == app.Name \in DOMAIN apps /\ app.Name \notin s.stale
    IN /\ c.pc = "status"
       /\ \/ /\ ~current
             /\ pass' = [pass EXCEPT ![p] =
                           statusFailed(s, IF app.Name \in DOMAIN apps
                                             THEN ApiError("Conflict")
                                             ELSE ApiError("NotFound"))]
             /\ UNCHANGED <<apps, outside>>
          \/ /\ current
             /\ MayHappen
             /\ outside' = outside + 1
             /\ pass' = [pass EXCEPT ![p] = statusFailed(s, ApiError("Unavailable"))]
             /\ UNCHANGED apps
          \/ /\ current
             /\ apps' = [apps EXCEPT ![app.Name].Status = syncedStatus(app.Status, s.now)]
             /\ pass' = Written([pass EXCEPT ![p] = nextApp(s)], p, app.Name)
             /\ UNCHANGED outside
       /\ UNCHANGED <<cm, clock>>

(***************************************************************************)
(* The external actor that owns the resources.                             *)
(***************************************************************************)
CreateApp(n) ==
    /\ MayHappen
    /\ n \notin DOMAIN apps
    /\ \E spec \in AppSpecs(n) :
         apps' = [m \in DOMAIN apps \cup {n} |->
                    IF m = n THEN [Spec |-> spec, Status |-> NoStatus] ELSE apps[m]]
    /\ outside' = outside + 1
    /\ pass' = Written(pass, 0, n)
    /\ UNCHANGED <<cm, clock>>

UpdateApp(n) ==
    /\ MayHappen
    /\ n \in DOMAIN apps
    /\ \E spec \in AppSpecs(n) \ {apps[n].Spec} :
         apps' = [apps EXCEPT ![n].Spec = spec]
    /\ outside' = outside + 1
    /\ pass' = Written(pass, 0, n)
    /\ UNCHANGED <<cm, clock>>

DeleteApp(n) ==
    /\ MayHappen
    /\ n \in DOMAIN apps
    /\ apps' = [m \in DOMAIN apps \ {n} |-> apps[m]]
    /\ outside' = outside + 1
    /\ pass' = Written(pass, 0, n)
    /\ UNCHANGED <<cm, clock>>

\* Time passes.  A tick that follows a time nobody read differs from no
\* tick only in the name of the time, and is left out.
Tick ==
    /\ MayHappen
    /\ \/ \E p \in Procs : pass[p].now = clock
       \/ \E n \in DOMAIN apps : apps[n].Status.LastSyncedAt = clock
    /\ clock' = clock + 1
    /\ outside' = outside + 1
    /\ UNCHANGED <<apps, cm, pass>>

\* The engine called by the runtime on triggers of any origin: nothing but
\* Reconcile touches the work queue.
Next ==
    \/ \E p \in Procs : Reconcile(p)
    \/ \E p \in Procs : GetConfigMap(p) /\ UNCHANGED operator
    \/ \E p \in Procs : CreateConfigMap(p) /\ UNCHANGED operator
    \/ \E p \in Procs : UpdateConfigMap(p) /\ UNCHANGED operator
    \/ \E p \in Procs : UpdateStatus(p) /\ UNCHANGED operator
    \/ \E n \in Range(AppNames) : CreateApp(n) /\ UNCHANGED operator
    \/ \E n \in Range(AppNames) : UpdateApp(n) /\ UNCHANGED operator
    \/ \E n \in Range(AppNames) : DeleteApp(n) /\ UNCHANGED operator
    \/ Tick /\ UNCHANGED operator

Spec == Init /\ [][Next]_vars

(***************************************************************************)
(* The engine over a collection that gets no new resource (its owner may   *)
(* still change or delete the ones it has), with the scheduling the        *)
(* runtime gives it: a worker inside Reconcile runs on to its return, and  *)
(* a worker that is owed a requeue is called again.                        *)
(***************************************************************************)
\* A step of the engine that the runtime owes: a call in progress goes on,
\* or a requeued call starts.
EngineStep ==
    \E p \in Procs :
      \/ RetryOwed(pass[p]) /\ Reconcile(p)
      \/ GetConfigMap(p) /\ UNCHANGED operator
      \/ CreateConfigMap(p) /\ UNCHANGED operator
      \/ UpdateConfigMap(p) /\ UNCHANGED operator
      \/ UpdateStatus(p) /\ UNCHANGED operator

NextFair ==
    \/ \E p \in Procs : Reconcile(p)
    \/ \E p \in Procs : GetConfigMap(p) /\ UNCHANGED operator
    \/ \E p \in Procs : CreateConfigMap(p) /\ UNCHANGED operator
    \/ \E p \in Procs : UpdateConfigMap(p) /\ UNCHANGED operator
    \/ \E p \in Procs : UpdateStatus(p) /\ UNCHANGED operator
    \/ \E n \in Range(AppNames) : UpdateApp(n) /\ UNCHANGED operator
    \/ \E n \in Range(AppNames) : DeleteApp(n) /\ UNCHANGED operator
    \/ Tick /\ UNCHANGED operator

FairSpec == Init /\ [][NextFair]_vars /\ WF_vars(EngineStep)

(***************************************************************************)
(* The engine started where the ConfigMap may already be there, made by    *)
(* somebody else: a body of its own and no config-hash annotation, which   *)
(* line 156-159 read as the empty hash.                                    *)
(***************************************************************************)
ForeignConfigMap == [Data |-> <<"[", "]">>, Hash |-> <<>>, ManagedBy |-> ""]

InitAdopt ==
    /\ \E present \in SUBSET Range(AppNames) :
         apps = [n \in present |->
                   [Spec |-> CHOOSE s \in AppSpecs(n) : s.Priority # 0,
                    Status |-> NoStatus]]
    /\ cm \in {<<>>, <<ForeignConfigMap>>}
    /\ clock = 1
    /\ pass = [p \in Procs |-> IdlePass]
    /\ outside = 0
    /\ operator = StartedOperator

AdoptSpec == InitAdopt /\ [][Next]_vars

(***************************************************************************)
(* Reconcile when a step fails, over every kind of error the step can hand *)
(* it: errors of other packages and OperatorErrors of each ErrorType.      *)
(***************************************************************************)
ErrorKinds ==
    {ApiError("Unavailable"), ApiError("DeadlineExceeded")}
      \cup {OperatorError(t, "failed") :
              t \in {ErrorTypeTransient, ErrorTypePermanent, ErrorTypeConfig}}

\* Lines 62-97 of a call in which Assemble, or updateAppsConfig at its Get,
\* returns an error.
FailingReconcile(p) ==
    LET s == pass[p]
        fresh == [IdlePass EXCEPT !.prev = Summary(s)]
        items == [fresh EXCEPT !.listed = 1 + Len(ListItems), !.appList = ListItems]
    IN /\ s.pc \in {"idle", "done"}
       /\ Len(ListItems) > 0
       /\ \E err \in ErrorKinds :
            \/ pass' = [pass EXCEPT ![p] = assemblyFailed(items, err)]
            \/ pass' = [pass EXCEPT ![p] =
                          configUpdateFailed([items EXCEPT !.result = Assemble(ListItems)],
                                             err)]
       /\ UNCHANGED <<apps, cm, clock, outside, operator>>

NextFailing == \E p \in Procs : FailingReconcile(p)

FailingSpec == Init /\ [][NextFailing]_vars

(***************************************************************************)
(* Assemble on its own: the store holds any resources the API type admits  *)
(* (and categories outside the schema's enumeration, which the function    *)
(* does not reject), List has handed them to worker 1 in some order and to *)
(* worker 2 in the opposite order, and each worker calls Assemble.         *)
(***************************************************************************)
\* The categories of the schema's enumeration, and one outside it.
KnownCategories == {"media", "ai", "productivity", "development", "admin"}
AnyCategories == KnownCategories \cup {"games"}

\* metadata.name of the resources handed to Assemble.
InputNames == SubSeq(<<"a", "b", "c", "d">>, 1, MaxApps)

\* The declared fields: two display names (A, AB), every category, the
\* priority unset (0) or declared.
InputSpecs ==
    [Name : {<<65>>, <<65, 66>>}, URL : {"https://app.example.com"},
     Category : AnyCategories, Icon : {"<svg>app</svg>"},
     Groups : {<<"users">>}, Priority : {0, 50}]

\* A list of resources: names ids[1..n] with the declared fields specs[1..n].
InputList(ids, specs) ==
    [k \in DOMAIN ids |-> [Name |-> ids[k], Spec |-> specs[k], Status |-> NoStatus]]

Reverse(list) == [k \in 1..Len(list) |-> list[Len(list) + 1 - k]]

\* Every list of up to MaxApps distinct resources.
InitAssemble ==
    /\ \E n \in 0..MaxApps :
         \E ids \in [1..n -> Range(InputNames)] :
           \E specs \in [1..n -> InputSpecs] :
             LET list == InputList(ids, specs)
             IN /\ \A i, j \in 1..n : i # j => ids[i] # ids[j]
                /\ apps = [m \in Range(ids) |->
                             LET k == CHOOSE j \in 1..n : ids[j] = m
                             IN [Spec |-> specs[k], Status |-> NoStatus]]
                /\ pass = [p \in Procs |->
                             [IdlePass EXCEPT !.listed = 1 + n,
                                              !.appList = IF p = 1 THEN list
                                                          ELSE Reverse(list)]]
    /\ cm = <<>>
    /\ clock = 1
    /\ outside = 0
    /\ operator = StartedOperator

\* Line 84: result, err := r.Assembler.Assemble(ctx, appList.Items)
AssembleCall(p) ==
    /\ pass[p].pc = "idle"
    /\ pass' = [pass EXCEPT ![p] = [@ EXCEPT !.pc = "get",
                                             !.result = Assemble(pass[p].appList)]]
    /\ UNCHANGED <<apps, cm, clock, outside, operator>>

NextAssemble == \E p \in Procs : AssembleCall(p)

AssembleSpec == InitAssemble /\ [][NextAssemble]_vars

(***************************************************************************)
(* The process from the start of main: the flags are parsed into an        *)
(* OperatorConfig, main validates it and exits on an error, and only then  *)
(* makes the manager, registers the reconciler and starts it.              *)
(***************************************************************************)
\* The values the flags may give the validated fields: the defaults, the
\* least values Validate lets pass, and values below them.
FlagConfigs ==
    [MaxConcurrentReconciles : {0, 1, 3},
     ReconcileTimeout : {Second - 1, Second, 5 * Minute},
     DuroNamespace : {"", "duro"},
     DuroConfigMapName : {"", "duro-apps"}]

InitStart ==
    /\ \E present \in SUBSET Range(AppNames) :
         apps = [n \in present |->
                   [Spec |-> CHOOSE s \in AppSpecs(n) : s.Priority # 0,
                    Status |-> NoStatus]]
    /\ cm = <<>>
    /\ clock = 1
    /\ pass = [p \in Procs |-> IdlePass]
    /\ outside = 0
    /\ \E c \in FlagConfigs : operator = ParsedOperator(c)

\* main.go lines 100-103 and 156: cfg.Validate, os.Exit(1) on an error, and
\* otherwise on to mgr.Start.
main ==
    /\ operator.pc = "validate"
    /\ operator' = [operator EXCEPT
                      !.pc = IF Validate(operator.Config) # NoError
                               THEN "exited" ELSE "running"]
    /\ UNCHANGED <<apps, cm, clock, pass, outside>>

NextStart ==
    \/ main
    \/ Next

StartSpec == InitStart /\ [][NextStart]_vars

(***************************************************************************)
(* The engine called by the runtime on what the controller watches: the    *)
(* DashboardApps, with no predicate, so that every event of a resource     *)
(* (added, changed in its spec or in its status, deleted) puts its name on *)
(* the work queue.  The store sends no event for a write that changes      *)
(* nothing.  The collection gets no new resource, and the process runs     *)
(* one worker (--max-concurrent-reconciles=1): the passes come one after   *)
(* another and none loses a race to another.                               *)
(*                                                                         *)
(* Time has no bound here.  The engine compares no two times, and the      *)
(* store only tells an equal status from a different one, so a state is    *)
(* kept with its times renamed to their ranks among the times it holds.    *)
(***************************************************************************)
\* Lines 49-52: For(&DashboardApp{}): the resources the step has added,
\* changed or deleted go onto the work queue.
Watch ==
    operator' =
      [operator EXCEPT
         !.queue = @ \cup {n \in DOMAIN apps \cup DOMAIN apps' :
                             \/ n \notin DOMAIN apps
                             \/ n \notin DOMAIN apps'
                             \/ apps'[n] # apps[n]}]

\* The times a status or a call holds.
TimesHeld ==
    ({apps[n].Status.LastSyncedAt : n \in DOMAIN apps}
       \cup UNION {{pass[p].now}
                     \cup {pass[p].appList[k].Status.LastSyncedAt :
                             k \in DOMAIN pass[p].appList} : p \in Procs}) \ {0}

\* The rank of time t among the times held; 0, no time, stays 0.
TimeRank(t) == Cardinality({u \in TimesHeld : u <= t})

\* Line 100: time passes, and the next metav1.Now() is later than every time
\* held.  A tick that follows a time nobody read is left out.
Tock ==
    LET ranked(status) == [status EXCEPT !.LastSyncedAt = TimeRank(@)]
    IN /\ clock \in TimesHeld
       /\ clock' = Cardinality(TimesHeld) + 1
       /\ apps' = [n \in DOMAIN apps |->
                     [apps[n] EXCEPT !.Status = ranked(@)]]
       /\ pass' = [p \in Procs |->
                     [pass[p] EXCEPT
                        !.now = TimeRank(@),
                        !.appList = [k \in DOMAIN pass[p].appList |->
                                       [pass[p].appList[k] EXCEPT
                                          !.Status = ranked(@)]]]]
       /\ UNCHANGED <<cm, outside, operator>>

\* The informer's first list puts every resource on the work queue.
InitWatch ==
    /\ \E present \in SUBSET Range(AppNames) :
         /\ apps = [n \in present |->
                      [Spec |-> CHOOSE s \in AppSpecs(n) : s.Priority # 0,
                       Status |-> NoStatus]]
         /\ operator = [StartedOperator EXCEPT !.queue = present,
                                               !.Config.MaxConcurrentReconciles = 1]
    /\ cm = <<>>
    /\ clock = 1
    /\ pass = [p \in Procs |-> IdlePass]
    /\ outside = 0

\* A step of the engine that the runtime owes: a call in progress goes on,
\* or a call starts for a requeue or for a name on the work queue.
WatchStep ==
    \E p \in Procs :
      \/ (RetryOwed(pass[p]) \/ Takeable(p) # {}) /\ Reconcile(p)
      \/ GetConfigMap(p) /\ UNCHANGED operator
      \/ CreateConfigMap(p) /\ UNCHANGED operator
      \/ UpdateConfigMap(p) /\ UNCHANGED operator
      \/ UpdateStatus(p) /\ Watch

NextWatch ==
    \/ \E p \in Procs : Reconcile(p)
    \/ \E p \in Procs : GetConfigMap(p) /\ UNCHANGED operator
    \/ \E p \in Procs : CreateConfigMap(p) /\ UNCHANGED operator
    \/ \E p \in Procs : UpdateConfigMap(p) /\ UNCHANGED operator
    \/ \E p \in Procs : UpdateStatus(p) /\ Watch
    \/ \E n \in Range(AppNames) : UpdateApp(n) /\ Watch
    \/ \E n \in Range(AppNames) : DeleteApp(n) /\ Watch
    \/ Tock

WatchSpec == InitWatch /\ [][NextWatch]_vars /\ WF_vars(WatchStep)

(***************************************************************************)
(* Properties.                                                             *)
(***************************************************************************)
\* The successful artifact writes (Create or Update) of a call.
Writes(s) == Len(SelectSeq(s.cmCalls, LAMBDA c : c[2]))

\* A call that has returned after a non-empty list, with every store call
\* of its own succeeding and nobody else writing the store meanwhile.
CleanPass(s) ==
    /\ s.pc = "done"
    /\ s.listed > 1
    /\ s.fail = NoError
    /\ s.statusUpdateErrors = <<>>
    /\ s.undisturbed

\* C1 (idempotent publish): a pass over a non-empty collection whose store
\* calls all succeed, that found the artifact absent or with another hash,
\* writes the artifact exactly once; the pass that follows it on unchanged
\* input, with nothing else written in between, writes it zero times.
IdempotentPublish ==
    \A p \in Procs :
      LET s == pass[p]
      IN /\ (CleanPass(s) /\ s.found \in {"absent", "different"}) => Writes(s) = 1
         /\ (CleanPass(s) /\ s.prev.synced /\ s.prev.undisturbed
               /\ s.prev.found \in {"absent", "different"})
              => (s.cmCalls = <<>> /\ s.found = "same")

\* C1 witness: a second pass has run right after a first one that wrote.
IdempotentPublishWitness ==
    \E p \in Procs :
      /\ CleanPass(pass[p]) /\ pass[p].prev.synced /\ pass[p].prev.undisturbed
      /\ pass[p].prev.found = "absent"
      /\ pass[p].cmCalls = <<>>

\* C2 (empty input no-op): a Reconcile call whose List returns nothing ends
\* at once: it leaves the artifact and every resource as they were, calls
\* neither Create nor Update nor Status().Update, emits no event, and
\* returns no requeue and no error.
EmptyInputNoOp ==
    [][\A p \in Procs :
         (Reconcile(p) /\ pass'[p].listed = 1)
           => /\ cm' = cm
              /\ apps' = apps
              /\ pass'[p].pc = "done"
              /\ pass'[p].cmCalls = <<>>
              /\ pass'[p].statusCalls = 0
              /\ pass'[p].events = <<>>
              /\ pass'[p].out = NoOutcome]_vars

\* C2 witness: a pass over an empty collection has ended while an artifact
\* of an earlier collection is stored.
EmptyInputNoOpWitness ==
    \E p \in Procs :
      /\ pass[p].pc = "done" /\ pass[p].listed = 1
      /\ DOMAIN apps = {}
      /\ cm # <<>>

\* C3 (partial-failure isolation): in the status loop every listed resource
\* gets its Status().Update in list order, whether or not an earlier one
\* failed; each one that succeeds leaves the resource with ready=true and
\* lastSyncedAt=now; after the last one the pass returns without error,
\* and with a requeue if any of them failed.
PartialFailureIsolation ==
    [][\A p \in Procs :
         UpdateStatus(p) =>
           LET s == pass[p]
               t == pass'[p]
               app == s.appList[s.i]
               failed == Len(t.statusUpdateErrors) > Len(s.statusUpdateErrors)
           IN /\ t.statusCalls = s.i
              /\ ~failed => /\ apps'[app.Name].Status.Ready
                            /\ apps'[app.Name].Status.LastSyncedAt = s.now
                            /\ s.now > 0
              /\ s.i < Len(s.appList) => (t.pc = "status" /\ t.i = s.i + 1)
              /\ s.i = Len(s.appList)
                   => /\ t.pc = "done"
                      /\ t.out.err = NoError
                      /\ t.statusUpdateErrors # <<>> => t.out.RequeueAfter > 0]_vars

\* C3 witness: the update of the first of two resources failed, the second
\* was still written and is ready, and the pass asked for a requeue.
PartialFailureIsolationWitness ==
    \E p \in Procs :
      /\ pass[p].pc = "done" /\ pass[p].listed = 3 /\ pass[p].statusCalls = 2
      /\ Len(pass[p].statusUpdateErrors) = 1
      /\ pass[p].statusUpdateErrors[1][1] = AppNames[1]
      /\ AppNames[2] \in DOMAIN apps /\ apps[AppNames[2]].Status.Ready
      /\ pass[p].out.RequeueAfter > 0

\* C4: whenever the ConfigMap exists, its config-hash annotation is the
\* hash of its apps.json.
HashMatchesBody == cm # <<>> => cm[1].Hash = computeHash(cm[1].Data)

\* C4 witness: the stored ConfigMap was written by an Update.
HashMatchesBodyWitness ==
    /\ cm # <<>>
    /\ \E p \in Procs :
         /\ pass[p].cmCalls = << <<"Update", TRUE>> >>
         /\ pass[p].result.AppsJSON = cm[1].Data

\* The canonical document of the resources now in the store.
CurrentDocument == Assemble(ListItems).AppsJSON

\* C5 (as claimed): once every pass has returned, and one of them listed
\* and published the collection as it is now, the stored artifact is the
\* canonical document of that collection.
OverlappingPassesConverge ==
    ( /\ \A p \in Procs : pass[p].pc \in {"idle", "done"}
      /\ ListItems # <<>>
      /\ \E p \in Procs : /\ pass[p].pc = "done" /\ pass[p].cmOk
                          /\ pass[p].result.AppsJSON = CurrentDocument )
      => (cm # <<>> /\ cm[1].Data = CurrentDocument)

\* C6 (no corrupted merge): every change of the stored artifact is the
\* Create or Update of one pass and leaves as the body exactly the document
\* assembled from the list that pass read.
NoCorruptedMerge ==
    [][cm' # cm =>
         \E p \in Procs :
           /\ CreateConfigMap(p) \/ UpdateConfigMap(p)
           /\ pass[p].appList # <<>>
           /\ cm'[1].Data = Assemble(pass[p].appList).AppsJSON]_vars

\* C6 witness: two passes over different snapshots both wrote the artifact,
\* the second while the first was still running.
NoCorruptedMergeWitness ==
    \E p, q \in Procs :
      /\ p # q
      /\ pass[p].pc = "status" /\ Writes(pass[p]) = 1
      /\ Writes(pass[q]) = 1 /\ pass[q].found = "different"
      /\ cm[1].Data = pass[q].result.AppsJSON
      /\ cm[1].Data # pass[p].result.AppsJSON

\* C7 (conflicts are transient): a Create that finds the ConfigMap already
\* there, an Update of the ConfigMap or of a status that is rejected as a
\* conflict changes nothing in the store; the pass that lost the race
\* returns with a requeue and no error; and the pass run for that requeue,
\* when its store calls succeed and nobody else writes, ends with the
\* artifact holding the document of the current collection, every
\* resource ready, and nothing more to retry.
ConflictIsTransient ==
    [][\A p \in Procs :
         LET s == pass[p]
             t == pass'[p]
             n == Len(t.statusUpdateErrors)
             lostNow ==
               \/ /\ s.pc \in {"create", "update"} /\ t.pc = "done"
                  /\ t.fail.why \in {"Conflict", "AlreadyExists"}
               \/ /\ s.pc = "status" /\ n = Len(s.statusUpdateErrors) + 1
                  /\ t.statusUpdateErrors[n][2] = "Conflict"
             returns == s.pc \notin {"idle", "done"} /\ t.pc = "done"
         IN /\ lostNow => (cm' = cm /\ apps' = apps)
            /\ (returns /\ LostRace(t))
                 => (t.out.RequeueAfter > 0 /\ t.out.err = NoError)
            /\ (returns /\ t.prev.lost /\ CleanPass(t))
                 => /\ cm' # <<>>
                    /\ cm'[1].Data = Assemble(ListOf(apps')).AppsJSON
                    /\ \A a \in DOMAIN apps' : apps'[a].Status.Ready
                    /\ t.out = NoOutcome]_vars

\* C7 witness: the pass run for the requeue of a lost race has succeeded.
ConflictIsTransientWitness ==
    \E p \in Procs : CleanPass(pass[p]) /\ pass[p].prev.lost

\* C8: a pass whose list, assembly or artifact step failed calls no
\* Status().Update; only the status loop of a pass whose artifact step
\* succeeded changes a resource.
NoStatusWriteAfterFailure ==
    [][\A p \in Procs :
         /\ pass'[p].fail # NoError
              => (pass'[p].statusCalls = 0 /\ pass'[p].statusUpdateErrors = <<>>)
         /\ (Reconcile(p) \/ GetConfigMap(p) \/ CreateConfigMap(p) \/ UpdateConfigMap(p))
              => apps' = apps
         /\ UpdateStatus(p) => (pass[p].cmOk /\ pass[p].fail = NoError)]_vars

\* C8 witness: the artifact step of a pass over a non-empty list has
\* failed, and the pass has returned.
NoStatusWriteAfterFailureWitness ==
    \E p \in Procs :
      /\ pass[p].pc = "done" /\ pass[p].listed > 1 /\ pass[p].fail # NoError
      /\ pass[p].events # <<>> /\ pass[p].events[1].Reason = "ConfigUpdateFailed"
      /\ \A a \in DOMAIN apps : ~apps[a].Status.Ready

\* A pass has returned with the artifact step done and a status write failed.
StatusWriteFailed(s) == s.pc = "done" /\ s.cmOk /\ s.statusUpdateErrors # <<>>

\* C9 (eventual status consistency): a pass whose artifact step succeeded
\* and that had a status write fail returns with a requeue; the pass run for
\* it, with nothing written by anybody else since the failed pass started,
\* finds the hash equal, calls neither Create nor Update, and calls
\* Status().Update for every listed resource; and with the runtime's
\* scheduling and finitely many outside failures, every resource is
\* eventually ready.
EventualStatusConsistency ==
    /\ [](\A p \in Procs :
            StatusWriteFailed(pass[p])
              => (pass[p].out.RequeueAfter > 0 /\ pass[p].out.err = NoError))
    /\ [](\A p \in Procs :
            LET s == pass[p]
            IN ( /\ s.pc = "done" /\ s.listed > 1 /\ s.fail = NoError
                 /\ s.undisturbed /\ s.prev.failedStatus /\ s.prev.undisturbed )
                 => /\ s.found = "same"
                    /\ s.cmCalls = <<>>
                    /\ s.statusCalls = s.listed - 1)
    /\ (\E p \in Procs : StatusWriteFailed(pass[p]))
         ~> (\A a \in DOMAIN apps : apps[a].Status.Ready)

\* C9 witness: the pass run for the requeue of a failed status write has
\* written no artifact, and every resource is ready.
EventualStatusConsistencyWitness ==
    \E p \in Procs :
      /\ CleanPass(pass[p]) /\ pass[p].prev.failedStatus /\ pass[p].prev.undisturbed
      /\ pass[p].cmCalls = <<>>
      /\ \A a \in DOMAIN apps : apps[a].Status.Ready

AssemblyStepFailed(s) ==
    s.pc = "done" /\ s.events # <<>> /\ s.events[1].Reason = "AssemblyFailed"
ArtifactStepFailed(s) ==
    s.pc = "done" /\ s.events # <<>> /\ s.events[1].Reason = "ConfigUpdateFailed"

\* C11 (requeue policy): a pass over a non-empty list that ended in a
\* retryable assembly failure or in an artifact-step failure returns
\* RequeueAfter 30s and no error; one whose artifact step succeeded and that
\* had a status write fail returns RequeueAfter 10s and no error; one in
\* which everything succeeded returns no requeue and no error.
RequeuePolicy ==
    \A p \in Procs :
      LET s == pass[p]
      IN (s.pc = "done" /\ s.listed > 1) =>
           /\ (AssemblyStepFailed(s) /\ ShouldRetry(s.fail))
                => s.out = [RequeueAfter |-> 30, err |-> NoError]
           /\ ArtifactStepFailed(s)
                => s.out = [RequeueAfter |-> 30, err |-> NoError]
           /\ (s.cmOk /\ s.statusUpdateErrors # <<>>)
                => s.out = [RequeueAfter |-> 10, err |-> NoError]
           /\ (s.cmOk /\ s.statusUpdateErrors = <<>>)
                => s.out = [RequeueAfter |-> 0, err |-> NoError]
           /\ AssemblyStepFailed(s) \/ ArtifactStepFailed(s) \/ s.cmOk

\* C11 witness: one worker ended in a retryable assembly failure and the
\* other with a failed status write, each with its own delay.
RequeuePolicyWitness ==
    \E p, q \in Procs :
      /\ AssemblyStepFailed(pass[p]) /\ ShouldRetry(pass[p].fail)
      /\ pass[p].out.RequeueAfter = 30
      /\ pass[q].pc = "done" /\ pass[q].cmOk /\ pass[q].statusUpdateErrors # <<>>
      /\ pass[q].out.RequeueAfter = 10

\* C12 (classification defaults to retryable): the assembly branch, which
\* asks ShouldRetry, requeues exactly for the errors that are no
\* OperatorError and for the OperatorErrors of Type Transient (0), and
\* returns the Permanent (1) and Config (2) ones; a failed pass whose error
\* is no OperatorError is requeued, or returns an error that ShouldRetry
\* retries (the failed List); and no failed pass ends with neither a
\* requeue nor a returned error.
RetryableByDefault ==
    \A p \in Procs :
      LET s == pass[p]
          requeued == s.out = [RequeueAfter |-> 30, err |-> NoError]
      IN (s.pc = "done" /\ s.fail # NoError) =>
           /\ AssemblyStepFailed(s) =>
                /\ requeued <=> (~s.fail.op \/ s.fail.Type = 0)
                /\ ~requeued => s.out = [RequeueAfter |-> 0, err |-> s.fail]
           /\ ~s.fail.op => (requeued \/ ShouldRetry(s.out.err))
           /\ s.out.RequeueAfter > 0 \/ s.out.err # NoError

\* C12 witness: an assembly failure with an error of another package was
\* requeued, and one with a Config error was returned.
RetryableByDefaultWitness ==
    \E p, q \in Procs :
      /\ AssemblyStepFailed(pass[p]) /\ ~pass[p].fail.op
      /\ pass[p].out.RequeueAfter = 30
      /\ AssemblyStepFailed(pass[q]) /\ pass[q].fail.op
      /\ pass[q].fail.Type = ErrorTypeConfig
      /\ pass[q].out.err = pass[q].fail

\* The stored document has an entry whose id is n.
HasEntry(n) ==
    /\ cm # <<>>
    /\ \E k \in 2..(Len(cm[1].Data) - 1) : cm[1].Data[k][2] = <<"id", n>>

\* C13 (as claimed): once a pass that began after the last change of the
\* store has returned without error and without a requeue, the stored
\* document has no entry for a resource that is not in the store.
DeletionNeedsNoCleanup ==
    \A p \in Procs :
      LET s == pass[p]
      IN (s.pc = "done" /\ s.undisturbed /\ s.fail = NoError /\ s.out = NoOutcome)
           => \A n \in Range(AppNames) \ DOMAIN apps : ~HasEntry(n)

\* The order the documentation gives the categories.
RankOrder == <<"media", "ai", "productivity", "development", "admin">>
Rank(c) == CHOOSE i \in 1..Len(RankOrder) : RankOrder[i] = c

\* Byte string s is t or comes before t in the lexicographic order.
LexLeq(s, t) ==
    \E k \in 0..Len(s) :
      /\ k <= Len(t)
      /\ \A j \in 1..k : s[j] = t[j]
      /\ k = Len(s) \/ (k < Len(t) /\ s[k + 1] < t[k + 1])

\* Entry a is not greater than entry b: by category rank, then priority,
\* then name.
NotGreater(a, b) ==
    \/ Rank(a.Category) < Rank(b.Category)
    \/ /\ Rank(a.Category) = Rank(b.Category)
       /\ \/ a.Priority < b.Priority
          \/ a.Priority = b.Priority /\ LexLeq(a.Name, b.Name)

\* The call of worker p has its AssemblyResult.
Assembled(p) == pass[p].pc = "get"

\* C14 (sort correctness): for every list whose categories are all of the
\* fixed set, each entry Assemble returns is not greater than the entry
\* after it, by category rank, then (defaulted) priority, then name.
SortCorrect ==
    \A p \in Procs :
      LET entries == pass[p].result.Entries
      IN ( /\ Assembled(p)
           /\ \A k \in 1..Len(pass[p].appList) :
                pass[p].appList[k].Spec.Category \in KnownCategories )
           => \A k \in 1..(Len(entries) - 1) : NotGreater(entries[k], entries[k + 1])

\* C14 witness: two resources of one category were listed with the greater
\* priority first, and came out with the lesser priority first.
SortCorrectWitness ==
    \E p \in Procs :
      LET list == pass[p].appList
          entries == pass[p].result.Entries
      IN /\ Assembled(p) /\ Len(list) = 2
         /\ list[1].Spec.Category = "ai" /\ list[2].Spec.Category = "ai"
         /\ list[1].Spec.Priority = 0 /\ list[2].Spec.Priority = 50
         /\ entries[1].ID = list[2].Name /\ entries[2].ID = list[1].Name

\* C15 (as claimed): two lists of the same resources in different order
\* (here: one the reverse of the other, categories of the fixed set) give
\* the same entries in the same order, the same document and the same hash.
OrderIndependent ==
    ( /\ Assembled(1) /\ Assembled(2)
      /\ \A k \in 1..Len(pass[1].appList) :
           pass[1].appList[k].Spec.Category \in KnownCategories )
      => /\ pass[1].result.Entries = pass[2].result.Entries
         /\ pass[1].result.AppsJSON = pass[2].result.AppsJSON
         /\ computeHash(pass[1].result.AppsJSON) = computeHash(pass[2].result.AppsJSON)

\* C16 (as claimed): in what Assemble returns, every entry with a category
\* of the fixed set comes before every entry with another category.
UnknownCategoryLast ==
    \A p \in Procs :
      LET entries == pass[p].result.Entries
      IN Assembled(p) =>
           \A i, j \in 1..Len(entries) :
             ( /\ entries[i].Category \in KnownCategories
               /\ entries[j].Category \notin KnownCategories ) => i < j

\* C17 (entry derivation): Assemble returns as many entries as it was given
\* resources; each resource has exactly one entry with its name as id, and
\* that entry has the resource's name, url, category, icon and groups, and
\* as priority 100 if the declared one is 0 and the declared one otherwise;
\* no entry has priority 0.
EntryDerivation ==
    \A p \in Procs :
      LET list == pass[p].appList
          entries == pass[p].result.Entries
      IN Assembled(p) =>
           /\ Len(entries) = Len(list)
           /\ Len(pass[p].result.AppsJSON) = Len(list) + 2
           /\ \A k \in 1..Len(list) :
                LET mine == {j \in 1..Len(entries) : entries[j].ID = list[k].Name}
                IN /\ Cardinality(mine) = 1
                   /\ \A j \in mine :
                        /\ entries[j].Name = list[k].Spec.Name
                        /\ entries[j].URL = list[k].Spec.URL
                        /\ entries[j].Category = list[k].Spec.Category
                        /\ entries[j].Icon = list[k].Spec.Icon
                        /\ entries[j].Groups = list[k].Spec.Groups
                        /\ list[k].Spec.Priority = 0 => entries[j].Priority = 100
                        /\ list[k].Spec.Priority # 0
                             => entries[j].Priority = list[k].Spec.Priority
           /\ \A j \in 1..Len(entries) : entries[j].Priority # 0

\* C17 witness: a resource with the priority unset and one with a declared
\* priority were assembled.
EntryDerivationWitness ==
    \E p \in Procs :
      /\ Assembled(p) /\ Len(pass[p].appList) = 2
      /\ pass[p].appList[1].Spec.Priority = 0
      /\ pass[p].appList[2].Spec.Priority = 50
      /\ {pass[p].result.Entries[j].Priority : j \in 1..2} = {50, 100}

\* C18 (side-effect bound): a pass calls Create or Update of the ConfigMap
\* at most once in all, Status().Update at most once per listed resource
\* (the calls made so far are those of the resources before the loop
\* index), and emits at most one event.
SideEffectBound ==
    \A p \in Procs :
      LET s == pass[p]
      IN /\ Len(s.cmCalls) <= 1
         /\ Len(s.events) <= 1
         /\ s.statusCalls <= (IF s.listed > 1 THEN s.listed - 1 ELSE 0)
         /\ s.pc = "status" => s.statusCalls = s.i - 1
         /\ s.pc \in {"get", "create", "update"} => s.statusCalls = 0

\* C18 witness: a pass over two resources has made one Update of the
\* ConfigMap, two status calls and one event.
SideEffectBoundWitness ==
    \E p \in Procs :
      /\ pass[p].pc = "done" /\ pass[p].listed = 3
      /\ Len(pass[p].cmCalls) = 1 /\ pass[p].cmCalls[1][1] = "Update"
      /\ pass[p].statusCalls = 2
      /\ Len(pass[p].events) = 1

\* How a returned call over a non-empty list went, read from what it did
\* rather than from its events.
AssemblyErred(s) == s.fail # NoError /\ s.result = NoResult
ArtifactErred(s) == s.fail # NoError /\ s.result # NoResult
AllSucceeded(s) == s.cmOk /\ s.statusUpdateErrors = <<>>
Emitted(s, reason) == \E k \in 1..Len(s.events) : s.events[k].Reason = reason

\* What C19 says of the event kinds: Synced, with the number of listed
\* resources, exactly when the artifact step and every status write
\* succeeded; AssemblyFailed exactly when assembly failed;
\* ConfigUpdateFailed exactly when the artifact step failed.
EventNamesOutcome(s) ==
    /\ Emitted(s, "Synced") <=> AllSucceeded(s)
    /\ Emitted(s, "AssemblyFailed") <=> AssemblyErred(s)
    /\ Emitted(s, "ConfigUpdateFailed") <=> ArtifactErred(s)
    /\ \A k \in 1..Len(s.events) :
         /\ s.events[k].Reason \in {"Synced", "AssemblyFailed", "ConfigUpdateFailed"}
         /\ s.events[k].Type = (IF s.events[k].Reason = "Synced" THEN "Normal" ELSE "Warning")
         /\ s.events[k].Count = s.listed - 1

\* C19 (as claimed): every returned pass over a non-empty list has emitted
\* one event, and the event names its outcome.
OneEventPerPass ==
    \A p \in Procs :
      (pass[p].pc = "done" /\ pass[p].listed > 1)
        => (Len(pass[p].events) = 1 /\ EventNamesOutcome(pass[p]))

\* C19 (amended): every returned pass over a non-empty list has emitted at
\* most one event, and the event names its outcome; a pass whose artifact
\* step succeeded and that had a status write fail has emitted none.
AtMostOneEventPerPass ==
    \A p \in Procs :
      LET s == pass[p]
      IN (s.pc = "done" /\ s.listed > 1)
           => /\ Len(s.events) <= 1
              /\ EventNamesOutcome(s)
              /\ s.events = <<>> <=> (s.cmOk /\ s.statusUpdateErrors # <<>>)

\* C19 witness: one pass has ended without an event after a failed status
\* write, another with the Synced event for two resources.
AtMostOneEventPerPassWitness ==
    \E p, q \in Procs :
      /\ pass[p].pc = "done" /\ pass[p].cmOk /\ pass[p].statusUpdateErrors # <<>>
      /\ pass[p].events = <<>>
      /\ pass[q].pc = "done" /\ Emitted(pass[q], "Synced")
      /\ pass[q].events[1].Count = 2

\* C20 (postcondition of the artifact step): at the step in which
\* updateAppsConfig returns nil, the ConfigMap exists, its apps.json is the
\* document of the list the pass read and its hash the hash of that
\* document; it was created if Get found none, updated in one call if Get
\* found another or no hash (and nobody wrote it since), and left as it was,
\* with no write, if Get found the same hash.
ArtifactStepPostcondition ==
    [][\A p \in Procs :
         (~pass[p].cmOk /\ pass'[p].cmOk) =>
           LET s == pass[p]
               t == pass'[p]
               doc == Assemble(s.appList).AppsJSON
           IN /\ s.appList # <<>>
              /\ cm' # <<>>
              /\ cm'[1].Data = doc
              /\ cm'[1].Hash = computeHash(doc)
              /\ t.found \in {"absent", "different", "same"}
              /\ t.found = "absent"
                   => (cm = <<>> /\ t.cmCalls = << <<"Create", TRUE>> >>)
              /\ t.found = "different"
                   => /\ cm # <<>> /\ cm[1].Hash # computeHash(doc)
                      /\ t.cmCalls = << <<"Update", TRUE>> >>
              /\ t.found = "same" => (cm' = cm /\ t.cmCalls = <<>>)]_vars

\* C20 witness: a pass has taken over a ConfigMap that had no hash, and
\* the ConfigMap now holds the pass's document.
ArtifactStepPostconditionWitness ==
    \E p \in Procs :
      /\ pass[p].pc = "status" /\ pass[p].found = "different"
      /\ pass[p].existing[1].Hash = <<>>
      /\ cm[1].Data = pass[p].result.AppsJSON
      /\ cm[1].Hash = computeHash(pass[p].result.AppsJSON)

\* The stored document has the entry derived from the listed resource app.
HasEntryOf(app) ==
    /\ cm # <<>>
    /\ \E k \in 2..(Len(cm[1].Data) - 1) : cm[1].Data[k] = MarshalEntry(toEntry(app))

\* C21 (as claimed): at every step in which a pass writes ready=true on a
\* resource, the stored document has the entry derived from that resource
\* as the pass listed it.
ReadyMeansSynced ==
    [][\A p \in Procs :
         (UpdateStatus(p) /\ apps' # apps) => HasEntryOf(pass[p].appList[pass[p].i])]_vars

\* The call returned from a failed List.
ListFailed(s) == s.pc = "done" /\ s.listed = 0 /\ s.fail # NoError

\* C22 (as claimed): a pass whose List failed has read and written no
\* ConfigMap, written no status and emitted no event; its error is one
\* that ShouldRetry retries; and it is rescheduled with a fixed delay, as
\* the other transient failures are.
ListFailureRequeued ==
    \A p \in Procs :
      LET s == pass[p]
      IN ListFailed(s) =>
           /\ s.found = "unread" /\ s.cmCalls = <<>>
           /\ s.statusCalls = 0 /\ s.statusUpdateErrors = <<>>
           /\ s.events = <<>>
           /\ s.out.err # NoError => ShouldRetry(s.out.err)
           /\ s.out.RequeueAfter \in {10, 30}


Invalid(c) ==
    \/ c.MaxConcurrentReconciles < 1
    \/ c.ReconcileTimeout < Second
    \/ c.DuroNamespace = ""
    \/ c.DuroConfigMapName = ""

\* A worker has been called.
PassesRun == \E p \in Procs : pass[p].pc # "idle"

\* C23 (as claimed): startup validation refuses every configuration with
\* fewer than 1 concurrent pass, a per-pass timeout below 1 second, or an
\* empty namespace or name of the ConfigMap, and lets the default
\* configuration pass; passes run only in a process whose configuration
\* was validated and let pass.
ValidatedAtStartup ==
    /\ Invalid(operator.Config) => operator.pc # "running"
    /\ operator.Config = NewDefaultConfig => operator.pc # "exited"
    /\ PassesRun => operator.pc = "running" /\ Validate(operator.Config) = NoError


\* No pass runs and none is owed: no worker is inside Reconcile or due a
\* requeue, and the work queue is empty.
Quiescent ==
    /\ operator.queue = {}
    /\ \A p \in Procs : pass[p].pc \in {"idle", "done"} /\ ~RetryOwed(pass[p])

\* C25 (as claimed): quiescence.  Once the collection is fixed and not
\* empty and the store calls succeed, the system comes to a state from
\* which no further pass is triggered.
Quiescence == <>[](DOMAIN apps # {}) => <>[]Quiescent

====
